---- MODULE Spec2Model ----
(***************************************************************************)
(* Heirloom: the extraction job worker (poll, claim, extract, persist,     *)
(* finalize, stop) of app/core/extraction_worker.py, the source URL        *)
(* resolution of app/retrieval/retrieve.py and the ask route of            *)
(* app/api/routes/data_retrieval.py.                                       *)
(*                                                                         *)
(* Every call to the store or to the object store is one atomic step of    *)
(* the calling worker; the Python between two calls is part of the step    *)
(* that precedes it.                                                       *)
(***************************************************************************)
EXTENDS Integers, Sequences, FiniteSets, TLC

\* ------------------------------------------------------------------ bounds
NumWorkers == 2      \* worker processes polling the same store
MaxJobs == 2         \* rows the external producer adds to jobs
MaxResets == 1       \* external resets of a failed job to queued
MaxFaults == 1       \* store / object store calls that raise
MaxRetrieved == 2    \* length of a retrieved list handed to resolve_source_urls
MaxTextLen == 3001   \* characters of a text handed to _chunk_text
MaxDuration == 60    \* longest short duration tried, in tenths of a millisecond
MaxStarts == 6       \* calls of start() on one worker object

\* ------------------------------------------------------- program constants
TEXT_CHUNK_SIZE == 1500
MAX_UPLOAD_BYTES == 524288000

\* None of an optional integer column, of a text column, of an asset key.
None == -1
NoDetail == "None"
NoneKey == <<"None">>

Workers == 1..NumWorkers

\* ------------------------------------------------------------ media assets
\* A mime type "family/subtype" is the pair <<family, subtype>>; a duration is
\* in tenths of a millisecond (1254000 is 125.4 s); an object key is a name.
SUPPORTED_MIME_TYPES ==
    { <<"text", "plain">>, <<"image", "png">>, <<"audio", "mpeg">>,
      <<"video", "mp4">>, <<"application", "pdf">> }

\* The rows of media_assets, read-only to the worker: three assets an
\* extractor can read, and four that stop at a gate of _handle_job (a mime
\* type outside the supported set, no object key, no duration, a supported
\* mime type no extractor matches).
extractable_assets ==
    << [id |-> 1, mime_type |-> <<"text", "plain">>, file_name |-> "notes.txt",
        duration_seconds |-> None],
       [id |-> 2, mime_type |-> <<"audio", "mpeg">>, file_name |-> "talk.mp3",
        duration_seconds |-> 1254000],
       [id |-> 3, mime_type |-> <<"video", "mp4">>, file_name |-> "film.mp4",
        duration_seconds |-> 0] >>

gated_assets ==
    << [id |-> 4, mime_type |-> <<"application", "zip">>, file_name |-> "pack.zip",
        duration_seconds |-> None],
       [id |-> 5, mime_type |-> <<"text", "plain">>, file_name |-> "",
        duration_seconds |-> None],
       [id |-> 6, mime_type |-> <<"audio", "mpeg">>, file_name |-> "memo.mp3",
        duration_seconds |-> None],
       [id |-> 7, mime_type |-> <<"application", "pdf">>, file_name |-> "scan.pdf",
        duration_seconds |-> None] >>

media_assets == extractable_assets \o gated_assets

AssetIds == 1..Len(extractable_assets)
GatedAssetIds == (Len(extractable_assets) + 1)..Len(media_assets)
MissingAssetId == 0

\* The objects uploaded before any job runs: key -> size in bytes.
ObjectBytes(key) ==
    CASE key = "notes.txt" -> 1501
      [] key = "talk.mp3" -> MAX_UPLOAD_BYTES
      [] key = "film.mp4" -> MAX_UPLOAD_BYTES + 1
      [] key \in {"pack.zip", "memo.mp3", "scan.pdf"} -> 10
      [] OTHER -> 0

\* The decoded content of a text object: ObjectBytes(key) one-byte characters.
ObjectText(key) == [i \in 1..ObjectBytes(key) |-> "x"]

InitialObjects ==
    {"notes.txt", "talk.mp3", "film.mp4", "pack.zip", "memo.mp3", "scan.pdf"}

\* ------------------------------------------------------------- extractors
\* A unit's title is the pair <<text, number>>: f"Text Chunk {idx}" is
\* <<"Text Chunk", idx>>, "Audio Segment 1" is <<"Audio Segment", 1>>.
Family(mime_type) == mime_type[1]

Min(S) == CHOOSE x \in S : \A y \in S : x <= y
Max(S) == CHOOSE x \in S : \A y \in S : x >= y

\* _chunk_text: the content cut into windows of TEXT_CHUNK_SIZE characters.
RECURSIVE ChunkFrom(_, _)
ChunkFrom(content, start) ==
    IF start < Len(content)
    THEN LET end == Min({start + TEXT_CHUNK_SIZE, Len(content)})
         IN  <<SubSeq(content, start + 1, end)>> \o ChunkFrom(content, end)
    ELSE <<>>

\* Faulty variant: empty content yields no chunk.
_chunk_text_no_empty(content) == ChunkFrom(content, 0)

_chunk_text(content) ==
    IF content = <<>> THEN << <<>> >> ELSE ChunkFrom(content, 0)

\* _duration_ms: max(int(float(duration_seconds) * 1000), 1); int() truncates.
_duration_ms(media_asset) ==
    Max({media_asset.duration_seconds \div 10, 1})

MemoryUnit(media_asset, start, end, title) ==
    [media_asset_id |-> media_asset.id, start_time_ms |-> start,
     end_time_ms |-> end, title |-> title]

Citation(media_asset, start, end, evidence) ==
    [media_asset_id |-> media_asset.id, mime_type |-> media_asset.mime_type,
     start_time_ms |-> start, end_time_ms |-> end, evidence_text |-> evidence]

\* An ExtractionResult is the sequence of its (memory unit, citation) pairs;
\* raised is the detail of the HTTPException the extractor raised, if any.
Extracted(pairs) == [raised |-> NoDetail, pairs |-> pairs]
Raised(detail) == [raised |-> detail, pairs |-> <<>>]

_extract_text(media_asset, content) ==
    LET chunks == _chunk_text(content)
    IN  Extracted([idx \in 1..Len(chunks) |->
            [unit |-> MemoryUnit(media_asset, None, None, <<"Text Chunk", idx>>),
             citation |-> Citation(media_asset, None, None, "chunk snippet")]])

_extract_image(media_asset) ==
    Extracted(<< [unit |-> MemoryUnit(media_asset, None, None, <<"Image Memory", 0>>),
                  citation |-> Citation(media_asset, None, None,
                                        "Visual evidence not analyzed.")] >>)

_extract_audio(media_asset) ==
    IF media_asset.duration_seconds = None
    THEN Raised("Missing duration_seconds")
    ELSE LET duration_ms == _duration_ms(media_asset)
         IN  Extracted(<< [unit |-> MemoryUnit(media_asset, 0, duration_ms,
                                               <<"Audio Segment", 1>>),
                           citation |-> Citation(media_asset, 0, duration_ms,
                                                 "Transcript not available.")] >>)

_extract_video(media_asset) ==
    IF media_asset.duration_seconds = None
    THEN Raised("Missing duration_seconds")
    ELSE LET duration_ms == _duration_ms(media_asset)
         IN  Extracted(<< [unit |-> MemoryUnit(media_asset, 0, duration_ms,
                                               <<"Video Segment", 1>>),
                           citation |-> Citation(media_asset, 0, duration_ms,
                                 "Transcript/visual evidence not available.")] >>)

\* _extract_memories: the dispatch on the mime type's prefix.
_extract_memories(media_asset, content) ==
    CASE Family(media_asset.mime_type) = "text" -> _extract_text(media_asset, content)
      [] Family(media_asset.mime_type) = "image" -> _extract_image(media_asset)
      [] Family(media_asset.mime_type) = "audio" -> _extract_audio(media_asset)
      [] Family(media_asset.mime_type) = "video" -> _extract_video(media_asset)
      [] OTHER -> Extracted(<<>>)

\* ------------------------------------------------------------------ dedup
\* _memory_key: the formatted key is the tuple of the values formatted into
\* it, led by its shape; NoneMemKey is the None of an unknown mime family.
NoneMemKey == <<"none", 0, None, None, <<"", 0>> >>

\* Faulty variant of _memory_key: image and text assets get no key.
_memory_key_timed_only(media_asset, unit) ==
    CASE Family(media_asset.mime_type) \in {"audio", "video"} ->
            <<"av", media_asset.id, unit.start_time_ms, unit.end_time_ms, unit.title>>
      [] OTHER -> NoneMemKey

_memory_key(media_asset, unit) ==
    CASE Family(media_asset.mime_type) \in {"audio", "video"} ->
            <<"av", media_asset.id, unit.start_time_ms, unit.end_time_ms, unit.title>>
      [] Family(media_asset.mime_type) \in {"image", "text"} ->
            <<"it", media_asset.id, None, None, unit.title>>
      [] OTHER -> NoneMemKey

\* _find_existing_unit: the id of the first existing unit with the same title
\* and time range, 0 when there is none.
_find_existing_unit(existing_units, unit) ==
    LET hits == { i \in 1..Len(existing_units) :
                    /\ existing_units[i].title = unit.title
                    /\ existing_units[i].start_time_ms = unit.start_time_ms
                    /\ existing_units[i].end_time_ms = unit.end_time_ms }
    IN  IF hits = {} THEN 0 ELSE existing_units[Min(hits)].id

\* ------------------------------------------------------------------ state
VARIABLES
    jobs,           \* table jobs: the row of id i is jobs[i]
    objects,        \* the keys the object store holds
    memory_units,   \* table memory_units: the row of id i is memory_units[i]
    citations,      \* table citations: the row of id i is citations[i]
    worker,         \* per worker process: its position and its local variables
    stop_event,     \* per worker process: WorkerStop._event
    resets,         \* external resets made so far
    faults,         \* calls that raised so far
    claimed,        \* per job: conditional updates that returned its row
    lost,           \* per job: conditional updates that returned no row
    retrieved,      \* ask flow: the retrieved units handed to resolve_source_urls
    used_ids,       \* ask flow: the memory unit ids the answer cited
    source_urls,    \* ask flow: the resolved URL list
    base_url,       \* ask flow: settings.AWS_S3_PUBLIC_BASE_URL ("" when unset)
    ask_pc,         \* ask flow: position
    route,          \* ask route: one request and what the handler made of it
    chunked,        \* one call of _chunk_text: its content and its chunks
    timed,          \* one audio/video extraction: its asset and its result
    threads,        \* worker object 1: the threads start() created, in order
    starts          \* worker object 1: calls of start() so far

vars == <<jobs, objects, memory_units, citations, worker, stop_event, resets,
          faults, claimed, lost, retrieved, used_ids, source_urls, base_url,
          ask_pc, route, chunked, timed, threads, starts>>

storeVars == <<jobs, objects, memory_units, citations>>
askVars == <<retrieved, used_ids, source_urls, base_url, ask_pc>>
ghostVars == <<claimed, lost>>
callVars == <<route, chunked, timed, threads, starts>>

NoJob == [id |-> 0, job_type |-> "extract", status |-> "queued",
          media_asset_id |-> 0, attempt |-> 0, error_detail |-> NoDetail]

\* A worker between two jobs: the locals of _process_next_job, _handle_job and
\* _persist_results hold nothing.
IdleWorker(at) ==
    [pc |-> at, job |-> NoJob, media_asset |-> 0, extraction |-> <<>>,
     existing_units |-> <<>>, existing_keys |-> {}, idx |-> 0,
     inserted_count |-> 0, unit_id |-> 0, detail |-> NoDetail, wrote |-> 0,
     bare |-> {}]

\* Positions inside _handle_job, and those from the claim to the terminal write.
InHandleJob == {"load_asset", "head", "delete", "read_text", "select_units",
                "ensure_select", "ensure_insert", "insert_unit",
                "insert_citation", "mark_done"}
InJob == InHandleJob \cup {"mark_failed"}

\* No request at the ask route yet, and no asset handed to an extractor yet.
NoRequest == [pc |-> "idle", question |-> <<>>, units |-> <<>>,
              gemini_response |-> [answer_text |-> "", used_citation_ids |-> {}],
              outcome |-> [kind |-> "none", error |-> NoDetail, answer_text |-> "",
                           source_urls |-> <<>>, generator_invoked |-> FALSE]]
NoAsset == [id |-> 0, mime_type |-> <<"", "">>, file_name |-> "",
            duration_seconds |-> None]

Init ==
    /\ jobs = <<>>
    /\ objects = InitialObjects
    /\ memory_units = <<>>
    /\ citations = <<>>
    /\ worker = [w \in Workers |-> IdleWorker("loop")]
    /\ stop_event = [w \in Workers |-> FALSE]
    /\ resets = 0
    /\ faults = 0
    /\ claimed = <<>>
    /\ lost = <<>>
    /\ retrieved = <<>>
    /\ used_ids = {}
    /\ source_urls = <<>>
    /\ base_url = <<>>
    /\ ask_pc = "idle"
    /\ route = NoRequest
    /\ chunked = [pc |-> "idle", content |-> <<>>, chunks |-> <<>>]
    /\ timed = [pc |-> "idle", media_asset |-> NoAsset, extraction |-> Extracted(<<>>)]
    /\ threads = <<>>
    /\ starts = 0

\* ---------------------------------------------------------- store primitives
\* A filter is the set of the ids of the rows it selects.
\* update(table, patch, filters): the table with the patch applied to the rows
\* the filter selects; the call returns the rows it updated.
Patch(row, patch) ==
    [f \in DOMAIN row |-> IF f \in DOMAIN patch THEN patch[f] ELSE row[f]]

supabase_update(rows, patch, filter) ==
    [i \in 1..Len(rows) |-> IF i \in filter THEN Patch(rows[i], patch) ELSE rows[i]]

\* insert(table, row): the row appended under the next generated id.
supabase_insert(rows, row) ==
    Append(rows, [f \in DOMAIN row \cup {"id"} |->
                    IF f = "id" THEN Len(rows) + 1 ELSE row[f]])

\* select(table, filters): the selected rows in id order.
RECURSIVE Ascending(_)
Ascending(S) ==
    IF S = {} THEN <<>> ELSE <<Min(S)>> \o Ascending(S \ {Min(S)})

supabase_select(rows, filter) ==
    LET ids == Ascending(filter)
    IN  [k \in 1..Len(ids) |-> rows[ids[k]]]

\* ------------------------------------------------------- external actors
\* The upload confirmation enqueues a job for a media asset.
Enqueue ==
    /\ Len(jobs) < MaxJobs
    /\ \E t \in {"extract", "thumbnail"}, a \in AssetIds \cup {MissingAssetId} :
         /\ t = "thumbnail" => a = 1
         /\ jobs' = Append(jobs, [id |-> Len(jobs) + 1, job_type |-> t,
                                  status |-> "queued", media_asset_id |-> a,
                                  attempt |-> 0, error_detail |-> NoDetail])
    /\ claimed' = Append(claimed, 0)
    /\ lost' = Append(lost, 0)
    /\ UNCHANGED <<objects, memory_units, citations, worker, stop_event, resets,
                   faults, askVars, callVars>>

\* The upload confirmation enqueues a job for an asset that stops at a gate.
EnqueueGated ==
    /\ Len(jobs) < MaxJobs
    /\ \E a \in GatedAssetIds :
         jobs' = Append(jobs, [id |-> Len(jobs) + 1, job_type |-> "extract",
                               status |-> "queued", media_asset_id |-> a,
                               attempt |-> 0, error_detail |-> NoDetail])
    /\ claimed' = Append(claimed, 0)
    /\ lost' = Append(lost, 0)
    /\ UNCHANGED <<objects, memory_units, citations, worker, stop_event, resets,
                   faults, askVars, callVars>>

\* An external actor resets a failed job to queued.
ExternalReset ==
    /\ resets < MaxResets
    /\ \E j \in 1..Len(jobs) :
         /\ jobs[j].status = "failed"
         /\ jobs' = [jobs EXCEPT ![j].status = "queued"]
    /\ resets' = resets + 1
    /\ UNCHANGED <<objects, memory_units, citations, worker, stop_event, faults,
                   ghostVars, askVars, callVars>>

\* ------------------------------------------------------------ worker steps
Set(w, l) == worker' = [worker EXCEPT ![w] = l]

\* raise HTTPException(detail=...), or an unexpected exception, in _handle_job:
\* _process_next_job catches it and calls _mark_failed with the detail.
Fail(l, detail) == [l EXCEPT !.pc = "mark_failed", !.detail = detail]

\* while not self._stop.should_stop()
Loop(w) ==
    /\ worker[w].pc = "loop"
    /\ Set(w, IdleWorker(IF stop_event[w] THEN "exited" ELSE "poll"))
    /\ UNCHANGED <<storeVars, stop_event, resets, faults, ghostVars, askVars, callVars>>

\* Faulty variants of the poll: it also selects failed jobs; it takes the
\* newest job.
SelectNextJobRetry(rows) ==
    LET queued == supabase_select(rows,
                      { i \in 1..Len(rows) : rows[i].status \in {"queued", "failed"}
                                              /\ rows[i].job_type = "extract" })
    IN  IF queued = <<>> THEN <<>> ELSE <<queued[1]>>

SelectNextJobNewest(rows) ==
    LET queued == supabase_select(rows,
                      { i \in 1..Len(rows) : rows[i].status = "queued"
                                              /\ rows[i].job_type = "extract" })
    IN  IF queued = <<>> THEN <<>> ELSE <<queued[Len(queued)]>>

\* The poll: the queued extract job of smallest id, if any.
SelectNextJob(rows) ==
    LET queued == supabase_select(rows,
                      { i \in 1..Len(rows) : rows[i].status = "queued"
                                              /\ rows[i].job_type = "extract" })
    IN  IF queued = <<>> THEN <<>> ELSE <<queued[1]>>

Poll(w) ==
    /\ worker[w].pc = "poll"
    /\ LET found == SelectNextJob(jobs)
       IN  IF found = <<>>
           THEN Set(w, IdleWorker("sleep"))
           ELSE Set(w, [IdleWorker("claim") EXCEPT !.job = found[1]])
    /\ UNCHANGED <<storeVars, stop_event, resets, faults, ghostVars, askVars, callVars>>

\* The conditional update of the claim: its patch and its filter.
ClaimPatch(job) == [status |-> "running", attempt |-> job.attempt + 1]

\* Faulty variants of the claim's filter: on the id alone; on any job not yet
\* terminal.
ClaimFilterIdOnly(row, job) == row.id = job.id

ClaimFilterNotTerminal(row, job) ==
    row.id = job.id /\ row.status \notin {"done", "failed"}

ClaimFilter(row, job) == row.id = job.id /\ row.status = "queued"

\* Faulty variant of the claim: a conditional update that returns no row is
\* handled as a failure of the job.
ClaimLostIsFailure(w) ==
    /\ worker[w].pc = "claim"
    /\ LET job == worker[w].job
           updated == { i \in 1..Len(jobs) : ClaimFilter(jobs[i], job) }
       IN  /\ jobs' = supabase_update(jobs, ClaimPatch(job), updated)
           /\ IF updated = {}
              THEN /\ Set(w, Fail(worker[w], "Claim lost"))
                   /\ lost' = [lost EXCEPT ![job.id] = @ + 1]
                   /\ UNCHANGED claimed
              ELSE /\ Set(w, [worker[w] EXCEPT !.pc = "load_asset"])
                   /\ claimed' = [claimed EXCEPT ![job.id] = @ + 1]
                   /\ UNCHANGED lost
    /\ UNCHANGED <<objects, memory_units, citations, stop_event, resets, faults,
                   askVars, callVars>>

Claim(w) ==
    /\ worker[w].pc = "claim"
    /\ LET job == worker[w].job
           updated == { i \in 1..Len(jobs) : ClaimFilter(jobs[i], job) }
       IN  /\ jobs' = supabase_update(jobs, ClaimPatch(job), updated)
           /\ IF updated = {}
              THEN /\ Set(w, IdleWorker("sleep"))
                   /\ lost' = [lost EXCEPT ![job.id] = @ + 1]
                   /\ UNCHANGED claimed
              ELSE /\ Set(w, [worker[w] EXCEPT !.pc = "load_asset"])
                   /\ claimed' = [claimed EXCEPT ![job.id] = @ + 1]
                   /\ UNCHANGED lost
    /\ UNCHANGED <<objects, memory_units, citations, stop_event, resets, faults,
                   askVars, callVars>>

\* _handle_job up to head_object: the asset row, the mime gate, the object key.
LoadAsset(w) ==
    /\ worker[w].pc = "load_asset"
    /\ LET l == worker[w]
           rows == supabase_select(media_assets,
                       { i \in 1..Len(media_assets) :
                           media_assets[i].id = l.job.media_asset_id })
       IN  IF rows = <<>>
           THEN Set(w, Fail(l, "Missing media asset"))
           ELSE IF rows[1].mime_type \notin SUPPORTED_MIME_TYPES
           THEN Set(w, Fail(l, "Unsupported mime type"))
           ELSE IF rows[1].file_name = ""
           THEN Set(w, Fail(l, "Missing object key"))
           ELSE Set(w, [l EXCEPT !.pc = "head", !.media_asset = rows[1].id])
    /\ UNCHANGED <<storeVars, stop_event, resets, faults, ghostVars, askVars, callVars>>

Asset(l) == media_assets[l.media_asset]

\* After _extract_memories: the empty-result gate, then _persist_results.
AfterExtract(l, result) ==
    IF result.raised # NoDetail THEN Fail(l, result.raised)
    ELSE IF result.pairs = <<>> THEN Fail(l, "No memory units produced")
    ELSE [l EXCEPT !.pc = "select_units", !.extraction = result.pairs]

\* Faulty variant of the size gate: off by one.
OversizedOffByOne(bytes) == bytes - 1 > MAX_UPLOAD_BYTES

\* head.bytes > MAX_UPLOAD_BYTES
Oversized(bytes) == bytes > MAX_UPLOAD_BYTES

\* _ensure_object_ok's head_object, then the dispatch of _extract_memories.
HeadObject(w) ==
    /\ worker[w].pc = "head"
    /\ LET l == worker[w]
           key == Asset(l).file_name
       IN  IF key \notin objects
           THEN Set(w, Fail(l, "Unexpected error"))
           ELSE IF Oversized(ObjectBytes(key))
           THEN Set(w, [l EXCEPT !.pc = "delete"])
           ELSE IF Family(Asset(l).mime_type) = "text"
           THEN Set(w, [l EXCEPT !.pc = "read_text"])
           ELSE Set(w, AfterExtract(l, _extract_memories(Asset(l), <<>>)))
    /\ UNCHANGED <<storeVars, stop_event, resets, faults, ghostVars, askVars, callVars>>

\* delete_object of the oversized object, then the 413.
Delete(w) ==
    /\ worker[w].pc = "delete"
    /\ objects' = objects \ {Asset(worker[w]).file_name}
    /\ Set(w, Fail(worker[w], "File exceeds 500 MB limit"))
    /\ UNCHANGED <<jobs, memory_units, citations, stop_event, resets, faults,
                   ghostVars, askVars, callVars>>

\* _read_text_object's get_object_bytes, then _extract_text.
ReadText(w) ==
    /\ worker[w].pc = "read_text"
    /\ LET l == worker[w]
           key == Asset(l).file_name
       IN  IF key \notin objects
           THEN Set(w, Fail(l, "Unexpected error"))
           ELSE Set(w, AfterExtract(l, _extract_memories(Asset(l), ObjectText(key))))
    /\ UNCHANGED <<storeVars, stop_event, resets, faults, ghostVars, askVars, callVars>>

\* Faulty variant of the loop: a pair whose key is known is skipped without
\* _ensure_citation.
RECURSIVE PersistNextNoBackfill(_)
PersistNextNoBackfill(l) ==
    IF l.idx > Len(l.extraction)
    THEN IF l.inserted_count = 0 /\ Len(l.existing_units) = 0
         THEN Fail(l, "No memory units written")
         ELSE [l EXCEPT !.pc = "mark_done"]
    ELSE LET unit == l.extraction[l.idx].unit
             key == _memory_key(Asset(l), unit)
         IN  IF key # NoneMemKey /\ key \in l.existing_keys
             THEN PersistNextNoBackfill([l EXCEPT !.idx = @ + 1])
             ELSE [l EXCEPT !.pc = "insert_unit"]

\* _persist_results' loop from pair idx on, up to its next store call: a pair
\* whose key is known goes to _ensure_citation for the unit found (or is
\* skipped when none is found), any other pair is inserted; after the last
\* pair, _handle_job's nothing-written gate and the done update.
RECURSIVE PersistNext(_)
PersistNext(l) ==
    IF l.idx > Len(l.extraction)
    THEN IF l.inserted_count = 0 /\ Len(l.existing_units) = 0
         THEN Fail(l, "No memory units written")
         ELSE [l EXCEPT !.pc = "mark_done"]
    ELSE LET unit == l.extraction[l.idx].unit
             key == _memory_key(Asset(l), unit)
         IN  IF key # NoneMemKey /\ key \in l.existing_keys
             THEN LET existing_unit == _find_existing_unit(l.existing_units, unit)
                  IN  IF existing_unit # 0
                      THEN [l EXCEPT !.pc = "ensure_select", !.unit_id = existing_unit]
                      ELSE PersistNext([l EXCEPT !.idx = @ + 1])
             ELSE [l EXCEPT !.pc = "insert_unit"]

\* _persist_results' select of the asset's units, and the keys known from it;
\* bare records which of these units have no citation at that moment.
SelectUnits(w) ==
    /\ worker[w].pc = "select_units"
    /\ LET l == worker[w]
           existing_units == supabase_select(memory_units,
                                 { i \in 1..Len(memory_units) :
                                     memory_units[i].media_asset_id = Asset(l).id })
           existing_keys == { _memory_key(Asset(l), existing_units[i]) :
                                i \in 1..Len(existing_units) } \ {NoneMemKey}
           bare == { existing_units[i].id : i \in 1..Len(existing_units) } \
                     { citations[c].memory_unit_id : c \in 1..Len(citations) }
       IN  Set(w, PersistNext([l EXCEPT !.existing_units = existing_units,
                                        !.existing_keys = existing_keys,
                                        !.idx = 1, !.inserted_count = 0,
                                        !.bare = bare]))
    /\ UNCHANGED <<storeVars, stop_event, resets, faults, ghostVars, askVars, callVars>>

\* The citation payload bound to a memory unit.
CitationPayload(citation, memory_unit_id) ==
    [f \in DOMAIN citation \cup {"memory_unit_id"} |->
        IF f = "memory_unit_id" THEN memory_unit_id ELSE citation[f]]

\* _ensure_citation's existence check.
EnsureSelect(w) ==
    /\ worker[w].pc = "ensure_select"
    /\ LET l == worker[w]
           existing == supabase_select(citations,
                           { i \in 1..Len(citations) :
                               citations[i].memory_unit_id = l.unit_id })
       IN  IF existing # <<>>
           THEN Set(w, PersistNext([l EXCEPT !.idx = @ + 1]))
           ELSE Set(w, [l EXCEPT !.pc = "ensure_insert"])
    /\ UNCHANGED <<storeVars, stop_event, resets, faults, ghostVars, askVars, callVars>>

\* _ensure_citation's insert.
EnsureInsert(w) ==
    /\ worker[w].pc = "ensure_insert"
    /\ LET l == worker[w]
       IN  /\ citations' = supabase_insert(citations,
                  CitationPayload(l.extraction[l.idx].citation, l.unit_id))
           /\ Set(w, PersistNext([l EXCEPT !.idx = @ + 1, !.wrote = @ + 1]))
    /\ UNCHANGED <<jobs, objects, memory_units, stop_event, resets, faults,
                   ghostVars, askVars, callVars>>

\* Faulty variant of the unit insert: the row is not persisted, and the
\* worker goes on with the id it expected.
InsertUnitDropped(w) ==
    /\ worker[w].pc = "insert_unit"
    /\ LET l == worker[w]
           unit == l.extraction[l.idx].unit
       IN  Set(w, [l EXCEPT !.pc = "insert_citation",
                            !.unit_id = Len(memory_units) + 1,
                            !.inserted_count = @ + 1,
                            !.existing_keys = @ \cup {_memory_key(Asset(l), unit)}])
    /\ UNCHANGED <<storeVars, stop_event, resets, faults, ghostVars, askVars,
                   callVars>>

\* _persist_results' insert of a new unit.
InsertUnit(w) ==
    /\ worker[w].pc = "insert_unit"
    /\ LET l == worker[w]
           unit == l.extraction[l.idx].unit
       IN  /\ memory_units' = supabase_insert(memory_units, unit)
           /\ Set(w, [l EXCEPT !.pc = "insert_citation",
                               !.unit_id = Len(memory_units) + 1,
                               !.inserted_count = @ + 1,
                               !.existing_keys = @ \cup {_memory_key(Asset(l), unit)},
                               !.wrote = @ + 1])
    /\ UNCHANGED <<jobs, objects, citations, stop_event, resets, faults,
                   ghostVars, askVars, callVars>>

\* _persist_results' insert of the new unit's citation.
InsertCitation(w) ==
    /\ worker[w].pc = "insert_citation"
    /\ LET l == worker[w]
       IN  /\ citations' = supabase_insert(citations,
                  CitationPayload(l.extraction[l.idx].citation, l.unit_id))
           /\ Set(w, PersistNext([l EXCEPT !.idx = @ + 1, !.wrote = @ + 1]))
    /\ UNCHANGED <<jobs, objects, memory_units, stop_event, resets, faults,
                   ghostVars, askVars, callVars>>

\* The terminal writes: their patches, filtered on the job id alone.
\* Faulty variant of the done patch: error_detail is left as it was.
DonePatchKeepDetail == [status |-> "done"]

DonePatch == [status |-> "done", error_detail |-> NoDetail]

FailedPatch(detail) == [status |-> "failed", error_detail |-> detail]

MarkDone(w) ==
    /\ worker[w].pc = "mark_done"
    /\ jobs' = supabase_update(jobs, DonePatch,
                               { i \in 1..Len(jobs) : jobs[i].id = worker[w].job.id })
    /\ Set(w, IdleWorker("loop"))
    /\ UNCHANGED <<objects, memory_units, citations, stop_event, resets, faults,
                   ghostVars, askVars, callVars>>

\* Faulty variant of the failure write: a failed attempt that had written
\* takes the newest memory unit back.
MarkFailedRollback(w) ==
    /\ worker[w].pc = "mark_failed"
    /\ jobs' = supabase_update(jobs, FailedPatch(worker[w].detail),
                               { i \in 1..Len(jobs) : jobs[i].id = worker[w].job.id })
    /\ memory_units' = IF worker[w].wrote > 0 /\ memory_units # <<>>
                       THEN SubSeq(memory_units, 1, Len(memory_units) - 1)
                       ELSE memory_units
    /\ Set(w, IdleWorker("loop"))
    /\ UNCHANGED <<objects, citations, stop_event, resets, faults,
                   ghostVars, askVars, callVars>>

MarkFailed(w) ==
    /\ worker[w].pc = "mark_failed"
    /\ jobs' = supabase_update(jobs, FailedPatch(worker[w].detail),
                               { i \in 1..Len(jobs) : jobs[i].id = worker[w].job.id })
    /\ Set(w, IdleWorker("loop"))
    /\ UNCHANGED <<objects, memory_units, citations, stop_event, resets, faults,
                   ghostVars, askVars, callVars>>

\* time.sleep(POLL_INTERVAL_SECONDS)
Sleep(w) ==
    /\ worker[w].pc = "sleep"
    /\ Set(w, IdleWorker("loop"))
    /\ UNCHANGED <<storeVars, stop_event, resets, faults, ghostVars, askVars, callVars>>

\* Faulty variant: an exception that reaches _run ends the thread.
StoreFaultEndsLoop(w) ==
    /\ faults < MaxFaults
    /\ worker[w].pc \in InJob \cup {"poll", "claim"}
    /\ faults' = faults + 1
    /\ IF worker[w].pc \in InHandleJob
       THEN Set(w, Fail(worker[w], "Unexpected error"))
       ELSE Set(w, IdleWorker("exited"))
    /\ UNCHANGED <<storeVars, stop_event, resets, ghostVars, askVars, callVars>>

\* A call to the store or to the object store raises without taking effect:
\* inside _handle_job the job is marked failed; in the poll, the claim or
\* _mark_failed the exception reaches _run, which logs it and sleeps.
StoreFault(w) ==
    /\ faults < MaxFaults
    /\ worker[w].pc \in InJob \cup {"poll", "claim"}
    /\ faults' = faults + 1
    /\ IF worker[w].pc \in InHandleJob
       THEN Set(w, Fail(worker[w], "Unexpected error"))
       ELSE Set(w, IdleWorker("sleep"))
    /\ UNCHANGED <<storeVars, stop_event, resets, ghostVars, askVars, callVars>>

\* The worker's process exits while it holds a claimed job.
Crash(w) ==
    /\ worker[w].pc \in InJob
    /\ Set(w, [IdleWorker("crashed") EXCEPT !.job = worker[w].job])
    /\ UNCHANGED <<storeVars, stop_event, resets, faults, ghostVars, askVars, callVars>>

\* ExtractionWorker.stop sets the stop event (shutdown). Only SpecStop takes
\* this step: for the job pipeline a stopped worker is one that no longer
\* polls.
Stop(w) ==
    /\ ~stop_event[w]
    /\ stop_event' = [stop_event EXCEPT ![w] = TRUE]
    /\ UNCHANGED <<storeVars, worker, resets, faults, ghostVars, askVars, callVars>>

WorkerStep(w) ==
    \/ Loop(w) \/ Poll(w) \/ Claim(w) \/ LoadAsset(w) \/ HeadObject(w)
    \/ Delete(w) \/ ReadText(w) \/ SelectUnits(w) \/ EnsureSelect(w)
    \/ EnsureInsert(w) \/ InsertUnit(w) \/ InsertCitation(w) \/ MarkDone(w)
    \/ MarkFailed(w) \/ Sleep(w)

\* ------------------------------------------------------ source URL resolution
\* A string is the sequence of its characters; an asset key is a string or
\* NoneKey. Characters compare by code point.
Code(c) ==
    CASE c = "/" -> 47
      [] c = "a" -> 97
      [] c = "b" -> 98
      [] c = "s" -> 115
      [] OTHER -> 0

RECURSIVE lstrip(_, _)
lstrip(str, c) ==
    IF str # <<>> /\ str[1] = c THEN lstrip(Tail(str), c) ELSE str

RECURSIVE rstrip(_, _)
rstrip(str, c) ==
    IF str # <<>> /\ str[Len(str)] = c
    THEN rstrip(SubSeq(str, 1, Len(str) - 1), c) ELSE str

\* Python's truth value of an optional string.
Truthy(str) == str # NoneKey /\ str # <<>>

\* resolve_public_url
resolve_public_url(asset_key) ==
    IF ~Truthy(asset_key) THEN <<>>
    ELSE IF Truthy(base_url)
    THEN rstrip(base_url, "/") \o <<"/">> \o lstrip(asset_key, "/")
    ELSE asset_key

\* Python's str order: a < b.
RECURSIVE StrLess(_, _)
StrLess(a, b) ==
    IF a = <<>> THEN b # <<>>
    ELSE IF b = <<>> THEN FALSE
    ELSE IF Code(a[1]) # Code(b[1]) THEN Code(a[1]) < Code(b[1])
    ELSE StrLess(Tail(a), Tail(b))

\* sorted(set(urls))
RECURSIVE sorted(_)
sorted(S) ==
    IF S = {} THEN <<>>
    ELSE LET least == CHOOSE x \in S : \A y \in S \ {x} : StrLess(x, y)
         IN  <<least>> \o sorted(S \ {least})

\* Faulty variant: the URLs in retrieval order, repeats kept.
RECURSIVE resolve_source_urls_in_order(_)
resolve_source_urls_in_order(units) ==
    IF units = <<>> THEN <<>>
    ELSE IF Truthy(units[1].asset_key)
    THEN <<resolve_public_url(units[1].asset_key)>>
             \o resolve_source_urls_in_order(Tail(units))
    ELSE resolve_source_urls_in_order(Tail(units))

\* resolve_source_urls(retrieved): the URL of every retrieved unit whose asset
\* key is not empty, deduplicated and sorted.
resolve_source_urls(units) ==
    sorted({ resolve_public_url(units[i].asset_key) :
               i \in { k \in 1..Len(units) : Truthy(units[k].asset_key) } })

AssetKeys == { NoneKey, <<>>, <<"a">>, <<"/", "a">>, <<"b">> }
BaseUrls == { <<>>, <<"s", "/">> }
UnitIds == 1..(MaxRetrieved + 1)

RetrievedLists ==
    UNION { [1..n -> [memory_unit_id : UnitIds, asset_key : AssetKeys]] :
              n \in 0..MaxRetrieved }

\* ask_profile_question up to the resolution: retrieval returned the units and
\* the answer generator cited some ids.
AskAnswered ==
    /\ ask_pc = "idle"
    /\ \E r \in RetrievedLists, ids \in SUBSET UnitIds, b \in BaseUrls :
         /\ retrieved' = r
         /\ used_ids' = ids
         /\ base_url' = b
    /\ ask_pc' = "resolve"
    /\ UNCHANGED <<storeVars, worker, stop_event, resets, faults, ghostVars,
                   source_urls, callVars>>

\* resolve_source_urls applied to the retrieved list.
ResolveSourceUrls ==
    /\ ask_pc = "resolve"
    /\ source_urls' = resolve_source_urls(retrieved)
    /\ ask_pc' = "done"
    /\ UNCHANGED <<storeVars, worker, stop_event, resets, faults, ghostVars,
                   retrieved, used_ids, base_url, callVars>>

\* ------------------------------------------------------------ the ask route
\* str.strip(): the string without the whitespace at its two ends.
strip(str) == rstrip(lstrip(str, " "), " ")

\* build_context_pack: one memory block per retrieved unit, in order; a block
\* carries the unit's id and asset key.
build_context_pack(question, units) ==
    [question |-> question, memories |-> units]

\* retrieve_context: returns the triple (context_pack, retrieved,
\* keyword_matches); units is what retrieve_memory_units returned.
retrieve_context(question, units) ==
    <<build_context_pack(question, units), units, <<>> >>

\* The route binds the returned tuple to two names, and calls
\* resolve_source_urls, which has one parameter, with two arguments.
UnpackTargets == 2
ResolveParameters == 1
ResolveArguments == 2

\* The fields AskResponse declares, both required, and those the route passes.
AskResponseFields == {"answer_text", "citations"}
GivenFields == {"answer_text", "source_urls"}

RouteRaised(error, invoked) ==
    [kind |-> "raised", error |-> error, answer_text |-> "",
     source_urls |-> <<>>, generator_invoked |-> invoked]

\* AskResponse(answer_text=..., source_urls=...): validation rejects a call
\* that leaves a required field out.
AskResponse(answer_text, urls, invoked) ==
    IF AskResponseFields \subseteq GivenFields
    THEN [kind |-> "response", error |-> NoDetail, answer_text |-> answer_text,
          source_urls |-> urls, generator_invoked |-> invoked]
    ELSE RouteRaised("ValidationError", invoked)

\* ask_profile_question: the handler from the request to its response or to
\* the exception that leaves it; gemini_response is what answer_question
\* returns when it is called.
ask_profile_question(question, units, gemini_response) ==
    IF strip(question) = <<>>
    THEN RouteRaised("Question is required.", FALSE)
    ELSE LET returned == retrieve_context(question, units)
         IN  IF Len(returned) # UnpackTargets
             THEN RouteRaised("ValueError", FALSE)
             ELSE IF returned[1].memories = <<>>
             THEN AskResponse("I don't know.", <<>>, FALSE)
             ELSE IF ResolveArguments # ResolveParameters
             THEN RouteRaised("TypeError", TRUE)
             ELSE AskResponse(gemini_response.answer_text,
                              resolve_source_urls(returned[2]), TRUE)

\* AskRequest.question has min_length 1.
Questions == { <<" ">>, <<"q">>, <<" ", "q">> }
GeminiResponses ==
    { [answer_text |-> "An answer.", used_citation_ids |-> ids] :
        ids \in { {}, {1} } }

\* A request reaches the route; the store decides what retrieval will return.
AskRequest ==
    /\ route.pc = "idle"
    /\ \E q \in Questions, r \in RetrievedLists, g \in GeminiResponses :
         route' = [NoRequest EXCEPT !.pc = "asked", !.question = q,
                                    !.units = r, !.gemini_response = g]
    /\ UNCHANGED <<storeVars, worker, stop_event, resets, faults, ghostVars,
                   askVars, chunked, timed, threads, starts>>

\* The handler runs.
AskRespond ==
    /\ route.pc = "asked"
    /\ route' = [route EXCEPT
                   !.pc = "done",
                   !.outcome = ask_profile_question(route.question, route.units,
                                                    route.gemini_response)]
    /\ UNCHANGED <<storeVars, worker, stop_event, resets, faults, ghostVars,
                   askVars, chunked, timed, threads, starts>>

\* ------------------------------------------------------- single extractions
\* A decoded text of some length reaches _chunk_text.
ChunkInput ==
    /\ chunked.pc = "idle"
    /\ \E n \in 0..MaxTextLen :
         chunked' = [chunked EXCEPT !.pc = "read",
                                    !.content = [i \in 1..n |-> "x"]]
    /\ UNCHANGED <<storeVars, worker, stop_event, resets, faults, ghostVars,
                   askVars, route, timed, threads, starts>>

\* _chunk_text applied to it.
ChunkText ==
    /\ chunked.pc = "read"
    /\ chunked' = [chunked EXCEPT !.pc = "done",
                                  !.chunks = _chunk_text(chunked.content)]
    /\ UNCHANGED <<storeVars, worker, stop_event, resets, faults, ghostVars,
                   askVars, route, timed, threads, starts>>

\* An audio or video asset with some duration reaches the extractors: every
\* duration up to MaxDuration tenths of a millisecond, and 125.4 s.
Durations == 0..MaxDuration \cup {media_assets[2].duration_seconds}

TimedInput ==
    /\ timed.pc = "idle"
    /\ \E a \in {2, 3}, d \in Durations :
         timed' = [timed EXCEPT
                     !.pc = "loaded",
                     !.media_asset = [media_assets[a] EXCEPT !.duration_seconds = d]]
    /\ UNCHANGED <<storeVars, worker, stop_event, resets, faults, ghostVars,
                   askVars, route, chunked, threads, starts>>

\* _extract_memories applied to it.
ExtractTimed ==
    /\ timed.pc = "loaded"
    /\ timed' = [timed EXCEPT
                   !.pc = "done",
                   !.extraction = _extract_memories(timed.media_asset, <<>>)]
    /\ UNCHANGED <<storeVars, worker, stop_event, resets, faults, ghostVars,
                   askVars, route, chunked, threads, starts>>

\* ------------------------------------------- the threads of a worker object
\* Worker object 1 through calls of start() and stop(); its stop event is
\* stop_event[1]. A thread is at the loop head, in the poll, in a claimed
\* job, asleep, or at its end; after_stop records whether the stop event was
\* set when start() created it.
Alive(t) == t.pc # "exited"

\* Faulty variant of start(): no test of the current thread.
StartAlways ==
    /\ starts < MaxStarts
    /\ starts' = starts + 1
    /\ threads' = Append(threads, [pc |-> "loop", after_stop |-> stop_event[1]])
    /\ UNCHANGED <<storeVars, worker, stop_event, resets, faults, ghostVars,
                   askVars, route, chunked, timed>>

\* start(): returns when self._thread is alive, else creates and starts a
\* thread running _run.
Start ==
    /\ starts < MaxStarts
    /\ starts' = starts + 1
    /\ IF threads # <<>> /\ Alive(threads[Len(threads)])
       THEN threads' = threads
       ELSE threads' = Append(threads, [pc |-> "loop", after_stop |-> stop_event[1]])
    /\ UNCHANGED <<storeVars, worker, stop_event, resets, faults, ghostVars,
                   askVars, route, chunked, timed>>

ThreadAt(i, pc) ==
    /\ threads' = [threads EXCEPT ![i].pc = pc]
    /\ UNCHANGED <<storeVars, worker, stop_event, resets, faults, ghostVars,
                   askVars, route, chunked, timed, starts>>

\* _run's loop condition.
ThreadLoop(i) ==
    /\ threads[i].pc = "loop"
    /\ ThreadAt(i, IF stop_event[1] THEN "exited" ELSE "poll")

\* _process_next_job up to the claim: the thread holds a claimed job, or there
\* was none to claim (or a call raised) and it sleeps.
ThreadPoll(i) ==
    /\ threads[i].pc = "poll"
    /\ \E pc \in {"job", "sleep"} : ThreadAt(i, pc)

\* The claimed job is handled: _process_next_job returns True, or its failure
\* write raises and _run sleeps.
ThreadJob(i) ==
    /\ threads[i].pc = "job"
    /\ \E pc \in {"loop", "sleep"} : ThreadAt(i, pc)

ThreadSleep(i) ==
    /\ threads[i].pc = "sleep"
    /\ ThreadAt(i, "loop")

ThreadStep(i) ==
    ThreadLoop(i) \/ ThreadPoll(i) \/ ThreadJob(i) \/ ThreadSleep(i)

\* ------------------------------------------------------------ specifications
\* Workers, process exits, store calls that raise, and the external actors.
Next ==
    \/ \E w \in Workers : WorkerStep(w)
    \/ \E w \in Workers : Crash(w)
    \/ \E w \in Workers : StoreFault(w)
    \/ Enqueue
    \/ ExternalReset

Spec == Init /\ [][Next]_vars

\* One worker alone: its jobs run one after the other.
NextSeq ==
    \/ WorkerStep(1)
    \/ StoreFault(1)
    \/ Enqueue
    \/ ExternalReset

SpecSeq == Init /\ [][NextSeq]_vars

\* One worker and every asset, those that stop at a gate included.
NextGates ==
    \/ WorkerStep(1)
    \/ StoreFault(1)
    \/ Enqueue
    \/ EnqueueGated
    \/ ExternalReset

SpecGates == Init /\ [][NextGates]_vars

\* One worker through shutdown: stop() may be signaled at any moment. The
\* worker's thread keeps running while its loop has not ended, and each of its
\* calls returns or raises: its steps are weakly fair.
NextStop ==
    \/ WorkerStep(1)
    \/ StoreFault(1)
    \/ Stop(1)
    \/ Enqueue
    \/ ExternalReset

SpecStop == Init /\ [][NextStop]_vars /\ WF_vars(WorkerStep(1))

\* One worker object: calls of start() and stop() in any order, and the steps
\* of the threads it created.
NextThreads ==
    \/ Start
    \/ Stop(1)
    \/ \E i \in 1..Len(threads) : ThreadStep(i)

SpecThreads == Init /\ [][NextThreads]_vars

\* The ask flow alone.
NextAsk ==
    \/ AskAnswered
    \/ ResolveSourceUrls

SpecAsk == Init /\ [][NextAsk]_vars

\* The ask route alone.
NextRoute ==
    \/ AskRequest
    \/ AskRespond

SpecRoute == Init /\ [][NextRoute]_vars

\* _chunk_text alone.
NextChunk ==
    \/ ChunkInput
    \/ ChunkText

SpecChunk == Init /\ [][NextChunk]_vars

\* The audio and video extractors alone.
NextTimed ==
    \/ TimedInput
    \/ ExtractTimed

SpecTimed == Init /\ [][NextTimed]_vars

\* ------------------------------------------------------------------ claims
JobIds == 1..Len(jobs)
Pc(w) == worker[w].pc
Stepped(w) == worker'[w] # worker[w]

\* The worker that holds job j: from its successful claim to its terminal write.
Owner(w, j) == Pc(w) \in InJob /\ worker[w].job.id = j

CitationsOf(u) == { c \in 1..Len(citations) : citations[c].memory_unit_id = u }
UnitsOf(a) == { u \in 1..Len(memory_units) : memory_units[u].media_asset_id = a }

\* C1. Claim exclusivity: of the conditional updates run against a job that
\* was queued once (no external reset yet), exactly one returns the row: as
\* soon as one has run, one has won, and no second one ever wins; every other
\* one returns no row.
C1_ClaimExclusivity ==
    \A j \in JobIds :
        /\ claimed[j] + lost[j] >= 1 => claimed[j] >= 1
        /\ resets = 0 => claimed[j] <= 1

C1_Witness ==
    \E j \in JobIds : resets = 0 /\ claimed[j] = 1 /\ lost[j] = 1

\* C2. Exclusive ownership: at most one worker is between the claim and the
\* terminal write of a job, the job is running all that time, only that
\* worker's own terminal write changes the job row, and the job of a worker
\* that exited while holding it is running in every later state.
C2_OwnerInv ==
    \A j \in JobIds : \A w1 \in Workers :
        /\ Owner(w1, j) => jobs[j].status = "running"
        /\ \A w2 \in Workers : Owner(w1, j) /\ Owner(w2, j) => w1 = w2
        /\ (Pc(w1) = "crashed" /\ worker[w1].job.id = j) => jobs[j].status = "running"

C2_OwnerStep ==
    \A j \in JobIds : \A w \in Workers :
        (Owner(w, j) /\ jobs'[j] # jobs[j]) =>
            /\ Stepped(w)
            /\ Pc(w) \in {"mark_done", "mark_failed"}
            /\ jobs'[j].status \in {"done", "failed"}

\* C2: the ownership invariant in every state and the owner's-write rule on
\* every step.
C2_ExclusiveOwnership == [](C2_OwnerInv) /\ [][C2_OwnerStep]_vars

C2_Witness ==
    \E w \in Workers :
        /\ Pc(w) = "crashed"
        /\ lost[worker[w].job.id] >= 1
        /\ \E j \in JobIds : j # worker[w].job.id /\ jobs[j].status = "done"

\* C3. Job lifecycle: a job's status changes only queued->running,
\* running->done, running->failed, and failed->queued by the external reset;
\* no worker step changes the row of a done or failed job, a done job never
\* changes, and a poll only ever selects a queued job.
C3_Step ==
    /\ \A j \in JobIds :
        LET a == jobs[j].status
            b == jobs'[j].status
        IN  /\ a # b => <<a, b>> \in { <<"queued", "running">>, <<"running", "done">>,
                                       <<"running", "failed">>, <<"failed", "queued">> }
            /\ (a = "failed" /\ b = "queued") => (worker' = worker /\ resets' = resets + 1)
            /\ (a \in {"done", "failed"} /\ worker' # worker) => jobs'[j] = jobs[j]
            /\ a = "done" => jobs'[j] = jobs[j]
    /\ \A w \in Workers :
        (Pc(w) = "poll" /\ worker'[w].pc = "claim") =>
            jobs[worker'[w].job.id].status = "queued"

\* C3: every step keeps to the job lifecycle.
C3_JobLifecycle == [][C3_Step]_vars

C3_Witness ==
    \E j \in JobIds : jobs[j].status = "done" /\ claimed[j] = 2 /\ lost[j] >= 1

\* C4. Idempotent extraction: when one worker runs a job for an asset that an
\* earlier job has already brought to done, that run inserts no memory unit,
\* the asset's units stay those it read at the start, and when it has gone
\* through the extraction result every unit of the asset has exactly one
\* citation.
SecondRun(w) ==
    /\ Pc(w) \in {"ensure_select", "ensure_insert", "insert_unit",
                  "insert_citation", "mark_done"}
    /\ \E j \in JobIds :
        /\ j # worker[w].job.id
        /\ jobs[j].status = "done"
        /\ jobs[j].media_asset_id = worker[w].job.media_asset_id

C4_IdempotentExtraction ==
    \A w \in Workers : SecondRun(w) =>
        /\ worker[w].inserted_count = 0
        /\ Pc(w) \notin {"insert_unit", "insert_citation"}
        /\ UnitsOf(worker[w].media_asset)
             = { worker[w].existing_units[i].id : i \in 1..Len(worker[w].existing_units) }
        /\ Pc(w) = "mark_done" =>
             \A u \in UnitsOf(worker[w].media_asset) : Cardinality(CitationsOf(u)) = 1
        /\ \A u \in UnitsOf(worker[w].media_asset) : Cardinality(CitationsOf(u)) <= 1

C4_Witness ==
    \E w \in Workers :
        /\ SecondRun(w)
        /\ Pc(w) = "mark_done"
        /\ Cardinality(UnitsOf(worker[w].media_asset)) = 2

\* C5. At most one citation per memory unit, in every reachable state.
C5_OneCitationPerUnit ==
    \A u \in 1..Len(memory_units) : Cardinality(CitationsOf(u)) <= 1

\* C6. No two persisted memory units of one media asset have the same dedup
\* key: (asset, start, end, title) for audio and video, (asset, title) for
\* image and text.
DedupKey(unit) ==
    IF Family(media_assets[unit.media_asset_id].mime_type) \in {"audio", "video"}
    THEN <<unit.media_asset_id, unit.start_time_ms, unit.end_time_ms, unit.title>>
    ELSE <<unit.media_asset_id, None, None, unit.title>>

C6_NoDuplicateUnits ==
    \A u1, u2 \in 1..Len(memory_units) :
        (u1 # u2 /\ memory_units[u1].media_asset_id = memory_units[u2].media_asset_id)
            => DedupKey(memory_units[u1]) # DedupKey(memory_units[u2])

\* C7. Attempt counter: a job's attempt is its initial value, 0, plus the
\* number of successful claims made on it so far.
C7_AttemptCountsClaims ==
    \A j \in JobIds : jobs[j].attempt = claimed[j]

\* C8. FIFO claim order: a poll selects the queued extract job of smallest id,
\* a claim moves only the polled job of the claiming worker to running, and a
\* job of another job_type is never claimed.
C8_Step ==
    /\ \A w \in Workers :
        (Pc(w) = "poll" /\ worker'[w].pc = "claim") =>
            LET j == worker'[w].job.id
            IN  /\ j \in JobIds
                /\ jobs[j].job_type = "extract" /\ jobs[j].status = "queued"
                /\ \A k \in JobIds :
                     (jobs[k].job_type = "extract" /\ jobs[k].status = "queued") => j <= k
    /\ \A j \in JobIds :
        (jobs[j].status = "queued" /\ jobs'[j].status = "running") =>
            /\ jobs[j].job_type = "extract"
            /\ \E w \in Workers :
                 Pc(w) = "claim" /\ worker[w].job.id = j /\ worker'[w].pc = "load_asset"
    /\ \A j \in JobIds : jobs[j].job_type # "extract" => jobs'[j] = jobs[j]

\* C8: every poll and every claim keeps to the FIFO order.
C8_FifoClaimOrder == [][C8_Step]_vars

C8_Witness ==
    \E w \in Workers :
        /\ Pc(w) = "load_asset" /\ worker[w].job.id = 2
        /\ jobs[1].job_type = "thumbnail" /\ jobs[1].status = "queued"

\* C9. Oversized object: a worker whose head_object finds more than the
\* ceiling goes on to delete the object; the delete removes it and leaves the
\* worker about to record a failure; and the write of that failure leaves the
\* job failed with an error_detail, the object gone, and nothing inserted by
\* the attempt. Each step is one whose call returns: the worker's process
\* does not exit and the call does not raise.
C9_Inv ==
    \A w \in Workers :
        (Pc(w) = "delete" \/ (Pc(w) = "mark_failed"
                              /\ worker[w].detail = "File exceeds 500 MB limit"))
            => worker[w].wrote = 0 /\ worker[w].inserted_count = 0

C9_Step ==
    \A w \in Workers :
        LET l == worker[w]
            key == media_assets[l.media_asset].file_name
            acts == Stepped(w) /\ worker'[w].pc # "crashed" /\ faults' = faults
        IN  /\ (l.pc = "head" /\ key \in objects /\ ObjectBytes(key) > MAX_UPLOAD_BYTES
                /\ acts) => worker'[w].pc = "delete"
            /\ (l.pc = "delete" /\ acts) =>
                  /\ key \notin objects'
                  /\ worker'[w].pc = "mark_failed"
                  /\ worker'[w].detail # NoDetail
                  /\ memory_units' = memory_units /\ citations' = citations
            /\ (l.pc = "mark_failed" /\ l.detail = "File exceeds 500 MB limit" /\ acts) =>
                  /\ jobs'[l.job.id].status = "failed"
                  /\ jobs'[l.job.id].error_detail # NoDetail
                  /\ key \notin objects'
                  /\ memory_units' = memory_units /\ citations' = citations

CitedUrls ==
    { resolve_public_url(retrieved[i].asset_key) :
        i \in { k \in 1..Len(retrieved) :
                  Truthy(retrieved[k].asset_key)
                  /\ retrieved[k].memory_unit_id \in used_ids } }

C10_OnlyCitedUnits ==
    ask_pc = "done" =>
        { source_urls[i] : i \in 1..Len(source_urls) } = CitedUrls

\* C11. URL resolution is deterministic: the resolved list is strictly
\* ascending (so it repeats no URL), every URL in it comes from a retrieved
\* unit with a non-empty asset key (a list of units without keys resolves to
\* nothing), and every list with the same asset keys, in any order and with
\* any repeats, resolves to the same list.
AssetKeysOf(units) == { units[i].asset_key : i \in 1..Len(units) }

C11_DeterministicResolution ==
    ask_pc = "done" =>
        /\ \A i, j \in 1..Len(source_urls) :
               i < j => StrLess(source_urls[i], source_urls[j])
        /\ \A i \in 1..Len(source_urls) :
               \E k \in 1..Len(retrieved) :
                   /\ Truthy(retrieved[k].asset_key)
                   /\ source_urls[i] = resolve_public_url(retrieved[k].asset_key)
        /\ \A k \in 1..Len(retrieved) :
               Truthy(retrieved[k].asset_key) =>
                   \E i \in 1..Len(source_urls) :
                       source_urls[i] = resolve_public_url(retrieved[k].asset_key)
        /\ \A other \in RetrievedLists :
               AssetKeysOf(other) = AssetKeysOf(retrieved) =>
                   resolve_source_urls(other) = source_urls

\* Two keyed units retrieved in descending URL order, one unit without a key
\* being impossible at this length: the list comes out reordered.
C11_Witness ==
    /\ ask_pc = "done"
    /\ Len(retrieved) = 2
    /\ retrieved[1].asset_key = <<"b">>
    /\ retrieved[2].asset_key = <<"/", "a">>
    /\ base_url = <<"s", "/">>
    /\ source_urls = << <<"s", "/", "a">>, <<"s", "/", "b">> >>

\* Keys that differ only by leading slashes resolve to one URL, and a unit
\* without a key adds none.
C11_WitnessRepeat ==
    /\ ask_pc = "done"
    /\ AssetKeysOf(retrieved) = { <<"a">>, <<"/", "a">> }
    /\ base_url = <<"s", "/">>
    /\ Len(source_urls) = 1

\* C12. Empty retrieval short-circuit: a request with a question whose
\* retrieval returns no memory unit is answered "I don't know." with no
\* sources and without invoking the answer generator, and the answer generator
\* is invoked only when retrieval returned at least one unit.
C12_EmptyRetrievalShortCircuit ==
    (route.pc = "done" /\ strip(route.question) # <<>>) =>
        /\ route.units = <<>> =>
              /\ route.outcome.kind = "response"
              /\ route.outcome.answer_text = "I don't know."
              /\ route.outcome.source_urls = <<>>
              /\ ~route.outcome.generator_invoked
        /\ route.outcome.generator_invoked => route.units # <<>>

\* C13. Text chunking: a content of L > 0 characters yields ceil(L / 1500)
\* chunks, an empty content yields exactly one empty chunk; every chunk before
\* the last has 1500 characters and the last has L - 1500 * (count - 1).
C13_TextChunking ==
    chunked.pc = "done" =>
        LET L == Len(chunked.content)
            count == Len(chunked.chunks)
        IN  /\ L = 0 => chunked.chunks = << <<>> >>
            /\ L > 0 => count = (L + 1499) \div 1500
            /\ count >= 1
            /\ \A i \in 1..(count - 1) : Len(chunked.chunks[i]) = 1500
            /\ Len(chunked.chunks[count]) = L - 1500 * (count - 1)

\* A content one character longer than two full windows: three chunks.
C13_Witness ==
    /\ chunked.pc = "done"
    /\ Len(chunked.content) = 3001
    /\ Len(chunked.chunks) = 3
    /\ Len(chunked.chunks[3]) = 1

\* The empty content: one empty chunk.
C13_WitnessEmpty ==
    /\ chunked.pc = "done"
    /\ chunked.content = <<>>
    /\ chunked.chunks = << <<>> >>

\* C14. Audio/video duration: for an audio or video asset with a non-negative
\* duration_seconds the one unit and its citation span from 0 to
\* max(round(duration_seconds * 1000), 1): the duration rounded to the nearest
\* millisecond, never below 1. A duration is in tenths of a millisecond, and
\* round() takes a tie to the even neighbour.
RoundMs(d) ==
    LET q == d \div 10
        r == d % 10
    IN  IF r < 5 THEN q
        ELSE IF r > 5 THEN q + 1
        ELSE IF q % 2 = 0 THEN q ELSE q + 1

C14_DurationSpan ==
    (timed.pc = "done" /\ timed.media_asset.duration_seconds >= 0) =>
        LET pairs == timed.extraction.pairs
            end == Max({RoundMs(timed.media_asset.duration_seconds), 1})
        IN  /\ timed.extraction.raised = NoDetail
            /\ Len(pairs) = 1
            /\ pairs[1].unit.start_time_ms = 0
            /\ pairs[1].unit.end_time_ms = end
            /\ pairs[1].citation.start_time_ms = 0
            /\ pairs[1].citation.end_time_ms = end

\* C15. Fail closed before persistence: a claimed job whose processing stops
\* at a validation gate (asset row missing, mime type unsupported, object key
\* missing, object oversized, duration missing, extraction empty) has written
\* no memory unit and no citation, and when its worker leaves it (the process
\* still alive) the job is failed and both tables are as they were.
GateDetails ==
    {"Missing media asset", "Unsupported mime type", "Missing object key",
     "File exceeds 500 MB limit", "Missing duration_seconds",
     "No memory units produced"}

AtGate(w) == Pc(w) = "mark_failed" /\ worker[w].detail \in GateDetails

C15_Inv == \A w \in Workers : AtGate(w) => worker[w].wrote = 0

C15_Step ==
    \A w \in Workers :
        (AtGate(w) /\ Stepped(w) /\ worker'[w].pc # "crashed") =>
            /\ jobs'[worker[w].job.id].status = "failed"
            /\ memory_units' = memory_units
            /\ citations' = citations

\* C15: nothing written at a gate in every state, and failed on leaving it.
C15_FailClosed == [](C15_Inv) /\ [][C15_Step]_vars

\* C16. Citation backfill: when a job's run finds a persisted unit of its
\* asset without a citation and runs to done, it inserts no second copy of
\* that unit (no unit with the key of a unit it found), and once the job is
\* done the unit has exactly one citation, bound to that unit's id.
C16_NoCopy ==
    \A w \in Workers :
        (Pc(w) = "insert_unit" /\ Stepped(w) /\ memory_units' # memory_units) =>
            \A i \in 1..Len(worker[w].existing_units) :
                DedupKey(memory_units'[Len(memory_units')])
                    # DedupKey(worker[w].existing_units[i])

C16_OneCitation ==
    \A w \in Workers :
        (Pc(w) = "mark_done" /\ Stepped(w)
         /\ jobs'[worker[w].job.id].status = "done") =>
            \A u \in worker[w].bare : Cardinality(CitationsOf(u)) = 1

C16_CitationBackfill == [][C16_NoCopy /\ C16_OneCitation]_vars

\* C17. Terminal status and error_detail agree: a done job has a null
\* error_detail, also when an earlier failed attempt had set it, and a failed
\* job has a non-null error_detail.
C17_StatusDetailAgree ==
    \A j \in JobIds :
        /\ jobs[j].status = "done" => jobs[j].error_detail = NoDetail
        /\ jobs[j].status = "failed" => jobs[j].error_detail # NoDetail

\* A job done at its second attempt, the first having failed, beside a
\* failed job.
C17_Witness ==
    \E j, k \in JobIds :
        /\ jobs[j].status = "done" /\ claimed[j] = 2
        /\ jobs[k].status = "failed"

\* C18. Every claimed job reaches a terminal status: a job moved to running
\* reaches done or failed unless its worker's process exits, whatever is
\* raised while it is handled. Only the worker that claimed a running job
\* ever writes its row (C2), so the job can still reach a terminal status
\* only while that worker is handling it: every running job has a worker
\* between its claim and its terminal write, or one whose process exited.
C18_ClaimedJobTerminates ==
    \A j \in JobIds :
        jobs[j].status = "running" =>
            \E w \in Workers :
                /\ worker[w].job.id = j
                /\ Pc(w) \in InJob \cup {"crashed"}

\* C19. The loop survives errors: a step at which a call raises (the poll, the
\* conditional update, a call of the job handling, the write recording the
\* failure) never ends the loop; the loop ends only at its head and with the
\* stop signal set; and the worker polls again and again until stop is
\* signaled.
C19_RaiseKeepsLoop ==
    \A w \in Workers :
        (faults' # faults /\ Stepped(w)) => worker'[w].pc \in {"mark_failed", "sleep"}

C19_EndsOnlyOnStop ==
    \A w \in Workers :
        (Pc(w) # "exited" /\ worker'[w].pc = "exited") =>
            Pc(w) = "loop" /\ stop_event[w]

C19_LoopSurvivesErrors ==
    /\ [][C19_RaiseKeepsLoop /\ C19_EndsOnlyOnStop]_vars
    /\ []<>(Pc(1) = "poll" \/ stop_event[1])

\* The write recording a failure raised (the job is left running), and the
\* worker, not stopped, is polling again.
C19_Witness ==
    /\ faults = 1
    /\ Pc(1) = "poll"
    /\ ~stop_event[1]
    /\ \E j \in JobIds : jobs[j].status = "running"

\* C20. Stop never interrupts a job: the stop flag is read only at the loop
\* head, so a worker holding a job when stop is signaled (or claiming one in
\* the iteration under way) leaves that job only with the job done or failed;
\* once stop is signaled the worker passes the loop head at most once more
\* without ending (one further claim at most), and then its loop ends.
C20_ReadAtLoopHead ==
    \A w \in Workers :
        /\ (Pc(w) \in InJob /\ Stepped(w)) => worker'[w].pc # "exited"
        /\ (Pc(w) # "poll" /\ worker'[w].pc = "poll") => Pc(w) = "loop"
        /\ (Pc(w) = "loop" /\ stop_event[w] /\ Stepped(w)) => worker'[w].pc = "exited"

C20_DrivenToTerminal ==
    \A w \in Workers : \A j \in JobIds :
        (stop_event[w] /\ Owner(w, j) /\ worker'[w].pc \notin InJob) =>
            jobs'[j].status \in {"done", "failed"}

C20_StopNeverInterrupts ==
    /\ [][C20_ReadAtLoopHead /\ C20_DrivenToTerminal]_vars
    /\ (stop_event[1] ~> Pc(1) = "exited")

\* C21. A lost claim race is not an error: when a worker runs its conditional
\* update on a job that is no longer queued, the jobs table is left as it was
\* (status, attempt and error_detail as the winner left them), the worker
\* enters neither _handle_job nor _mark_failed but sleeps, and from the sleep
\* it writes nothing and returns to the loop head before it polls again.
C21_LoserStep ==
    \A w \in Workers :
        /\ (Pc(w) = "claim" /\ Stepped(w)
            /\ jobs[worker[w].job.id].status # "queued") =>
                /\ jobs' = jobs
                /\ worker'[w].pc = "sleep"
                /\ worker'[w].job = NoJob
        /\ (Pc(w) = "sleep" /\ Stepped(w)) =>
                /\ worker'[w].pc = "loop"
                /\ jobs' = jobs /\ memory_units' = memory_units
                /\ citations' = citations /\ objects' = objects

C21_LostClaimNoError == [][C21_LoserStep]_vars

\* A worker asleep after losing the claim of a job that the winner holds at
\* its first attempt.
C21_Witness ==
    \E w \in Workers : \E j \in JobIds :
        /\ Pc(w) = "sleep"
        /\ lost[j] = 1 /\ claimed[j] = 1
        /\ jobs[j].status = "running" /\ jobs[j].attempt = 1
        /\ \E v \in Workers : v # w /\ Owner(v, j)

\* C22. Memory units are append-only: no step changes or removes a persisted
\* memory unit or citation, each table only grows at its end, a memory unit
\* is added only by the insert of _persist_results and a citation only by the
\* inserts of _persist_results and _ensure_citation. (The rows of
\* media_assets are the same in every state: no step writes them.)
InPersistResults == {"select_units", "ensure_select", "ensure_insert",
                     "insert_unit", "insert_citation"}

C22_Step ==
    /\ Len(memory_units') >= Len(memory_units)
    /\ \A u \in 1..Len(memory_units) : memory_units'[u] = memory_units[u]
    /\ Len(citations') >= Len(citations)
    /\ \A c \in 1..Len(citations) : citations'[c] = citations[c]
    /\ memory_units' # memory_units =>
          /\ Len(memory_units') = Len(memory_units) + 1
          /\ \E w \in Workers : Pc(w) = "insert_unit" /\ Stepped(w)
    /\ citations' # citations =>
          /\ Len(citations') = Len(citations) + 1
          /\ \E w \in Workers : Pc(w) \in InPersistResults /\ Stepped(w)

C22_AppendOnly == [][C22_Step]_vars

\* A job done at its second attempt, with two units and two citations
\* persisted.
C22_Witness ==
    \E j \in JobIds :
        /\ claimed[j] = 2
        /\ jobs[j].status = "done"
        /\ Len(memory_units) >= 2
        /\ Len(citations) >= 2

\* C23. A done job has persisted memories: when a job is done, its media
\* asset has at least one persisted memory unit, and every unit of the
\* extraction result of that asset is persisted (same title and time range)
\* with at least one citation.
ExtractionOf(a) ==
    _extract_memories(media_assets[a], ObjectText(media_assets[a].file_name)).pairs

Persists(u, unit) ==
    /\ memory_units[u].title = unit.title
    /\ memory_units[u].start_time_ms = unit.start_time_ms
    /\ memory_units[u].end_time_ms = unit.end_time_ms

C23_DoneHasMemories ==
    \A j \in JobIds :
        jobs[j].status = "done" =>
            LET a == jobs[j].media_asset_id
            IN  /\ UnitsOf(a) # {}
                /\ \A i \in 1..Len(ExtractionOf(a)) :
                      \E u \in UnitsOf(a) :
                          /\ Persists(u, ExtractionOf(a)[i].unit)
                          /\ CitationsOf(u) # {}

\* A job for the text asset done at its second attempt, a call having raised
\* before, with the asset's two units persisted.
C23_Witness ==
    \E j \in JobIds :
        /\ jobs[j].status = "done"
        /\ jobs[j].media_asset_id = 1
        /\ claimed[j] = 2
        /\ faults = 1
        /\ Cardinality(UnitsOf(1)) = 2

\* C24. Citation referential integrity: every citation's memory_unit_id is
\* the id of a persisted memory unit, and a citation is inserted only for a
\* unit persisted before that insert; an attempt that fails between the two
\* inserts leaves a unit without a citation, never a citation without a unit.
C24_Inv ==
    \A c \in 1..Len(citations) :
        /\ citations[c].memory_unit_id \in 1..Len(memory_units)
        /\ memory_units[citations[c].memory_unit_id].id = citations[c].memory_unit_id

C24_Step ==
    citations' # citations =>
        citations'[Len(citations')].memory_unit_id \in 1..Len(memory_units)

C24_ReferentialIntegrity == [](C24_Inv) /\ [][C24_Step]_vars

\* An attempt on the text asset failed between the two inserts of its second
\* chunk: the first unit is cited, the second is not, and no worker is at it.
C24_Witness ==
    /\ \E j \in JobIds : jobs[j].status = "failed" /\ jobs[j].media_asset_id = 1
    /\ \A w \in Workers : Pc(w) \notin InJob
    /\ Len(memory_units) = 2
    /\ CitationsOf(1) # {}
    /\ CitationsOf(2) = {}

\* C25. One polling thread per worker object: at most one thread of the
\* object is alive, start() while the thread is alive creates no thread, the
\* stop event is never cleared, and a thread created after stop() only goes
\* from the loop head to its end: it never polls and never holds a job.
C25_Inv ==
    /\ Cardinality({ i \in 1..Len(threads) : Alive(threads[i]) }) <= 1
    /\ \A i \in 1..Len(threads) :
           threads[i].after_stop => threads[i].pc \in {"loop", "exited"}

C25_Step ==
    /\ (starts' # starts /\ \E i \in 1..Len(threads) : Alive(threads[i])) =>
           threads' = threads
    /\ stop_event[1] => stop_event'[1]

C25_OnePollingThread == [](C25_Inv) /\ [][C25_Step]_vars

\* Three calls of start(): one made the first thread, one found it alive, and
\* one, after stop() and the first thread's end, made a thread that ended
\* without polling.
C25_Witness ==
    /\ starts = 3
    /\ Len(threads) = 2
    /\ ~threads[1].after_stop /\ threads[1].pc = "exited"
    /\ threads[2].after_stop /\ threads[2].pc = "exited"

====
